---- MODULE Spec2Model ----
(***************************************************************************)
(* A model of @serebano/upi (src/unnamed/part_002, the current mod.ts):    *)
(* the path proxy, the local and the fetch handler, the dispatcher         *)
(* `handle`, the error codec and the handler of the request router.        *)
(*                                                                         *)
(* Text is modelled as a sequence of symbols.  The symbols COLON, SP and   *)
(* LF are the characters ':', ' ' and line feed; every other symbol stands *)
(* for a run of text with no ':' and no line feed in it that does not      *)
(* begin with ' '.                                                         *)
(***************************************************************************)
EXTENDS Integers, Sequences, FiniteSets, TLC

VARIABLES
    cpc,      \* codec run: "in", "enc", "dec"
    cfail,    \* codec run: the failure given to errorToString
    cenc,     \* codec run: the result of errorToString
    cdec,     \* codec run: the result of stringToError
    hpc,      \* dispatcher run: "in", "done", "again"
    htarget,  \* dispatcher run: the target object graph
    hreq,     \* dispatcher run: the Request
    hout,     \* dispatcher run: what handle(target, request) did
    hout2,    \* dispatcher run: what handle did when called once more
    rpc,      \* router run: "in", "done"
    rreq,     \* router run: the HTTP request
    rurl,     \* router run: the kind of the request URL's pathname
    rdid,     \* router run: what the router's handler did
    binding,  \* the Handler the root proxy is bound to, or that upi threw
    proxies,  \* the proxies made so far, the root proxy first
    calls     \* the invocations of callables made so far

codecVars  == <<cpc, cfail, cenc, cdec>>
handleVars == <<hpc, htarget, hreq, hout, hout2>>
routerVars == <<rpc, rreq, rurl, rdid>>
proxyVars  == <<binding, proxies, calls>>
vars == <<codecVars, handleVars, routerVars, proxyVars>>

----------------------------------------------------------------------------
(* Bounds *)

MaxMsgLen == 3
MaxPathLen == 2
MaxProxies == 2
MaxCalls == 1
MaxOutstanding == 2

----------------------------------------------------------------------------
(* Text *)

COLON == ":"
SP    == " "
LF    == "LF"

UNDEF == "<undefined>"
NULL  == "<null>"

\* Is sep (non-empty) found in s at position i
MatchAt(s, sep, i) ==
    /\ i + Len(sep) - 1 <= Len(s)
    /\ SubSeq(s, i, i + Len(sep) - 1) = sep

\* String.prototype.indexOf(sep), 1-based; 0 when not found
IndexOf(s, sep) ==
    IF \E i \in 1..Len(s) : MatchAt(s, sep, i)
    THEN CHOOSE i \in 1..Len(s) :
            /\ MatchAt(s, sep, i)
            /\ \A j \in 1..(i - 1) : ~MatchAt(s, sep, j)
    ELSE 0

\* String.prototype.split(sep) for a non-empty separator, no limit
RECURSIVE Split(_, _)
Split(s, sep) ==
    LET i == IndexOf(s, sep) IN
    IF i = 0 THEN << s >>
    ELSE << SubSeq(s, 1, i - 1) >> \o Split(SubSeq(s, i + Len(sep), Len(s)), sep)

\* Array.prototype.join(sep) on an array of strings
RECURSIVE Join(_, _)
Join(parts, sep) ==
    IF Len(parts) = 0 THEN << >>
    ELSE IF Len(parts) = 1 THEN parts[1]
    ELSE parts[1] \o sep \o Join(Tail(parts), sep)

----------------------------------------------------------------------------
(* Error codec *)

\* ERROR_CLASSES: the names of the catalog classes
ERROR_CLASSES ==
    << "EvalError", "RangeError", "ReferenceError", "SyntaxError", "TypeError", "URIError" >>

\* The stack a `new Error()` made inside stringToError starts with
LocalStack == << "at stringToError" >>

\* A thrown JS value.  t = "obj": an Error-like object with a class (cls),
\* a name, a message and a stack; "str": a primitive string (or number);
\* "null" / "undef": null / undefined.
Thrown(t, cls, name, message, stack) ==
    [t |-> t, cls |-> cls, name |-> name, message |-> message, stack |-> stack]

ErrorObj(cls, name, message, stack) == Thrown("obj", cls, name, message, stack)

NoError == ErrorObj("", << >>, << >>, << >>)

\* The class whose instances carry the kind name k by default
ClassOf(k) == IF \E i \in 1..Len(ERROR_CLASSES) : ERROR_CLASSES[i] = k THEN k ELSE "Error"

\* A failure as a JS engine makes it: the stack is the header line
\* "<name>: <message>" (just "<name>" without a message) and the frames.
EngineStack(k, m) ==
    (IF m = << >> THEN << k >> ELSE << k, COLON, SP >> \o m) \o << LF, "at f" >>

\* An Error of kind k with message m, as `new k(m)` makes it
EngineError(k, m) == ErrorObj(ClassOf(k), << k >>, m, EngineStack(k, m))

\* errorToString without the stack lines
errorToStringHeadOnly(error) ==
    IF error.t \in {"null", "undef"} THEN [k |-> "raise", s |-> << >>]
    ELSE IF error.t = "str" THEN [k |-> "undef", s |-> << >>]
    ELSE IF error.message # << >>
         THEN [k |-> "str", s |-> error.name \o << COLON, SP >> \o error.message]
         ELSE [k |-> "str", s |-> error.name]

\* errorToString(error).  k = "str": a string s was returned; "undef":
\* undefined was returned (error.name of a primitive); "raise": reading
\* error.message raised a TypeError (error is null or undefined).
errorToString(error) ==
    IF error.t \in {"null", "undef"} THEN [k |-> "raise", s |-> << >>]
    ELSE IF error.t = "str" THEN [k |-> "undef", s |-> << >>]
    ELSE IF error.message # << >>
         THEN [k |-> "str",
               s |-> error.name \o << COLON, SP >> \o error.message \o << LF >> \o error.stack]
         ELSE [k |-> "str", s |-> error.name]

\* stringToError(s)
stringToError(s) ==
    LET lines       == Split(s, << LF >>)
        nameMessage == lines[1]
        stack       == Tail(lines)
        parts       == Split(nameMessage, << COLON, SP >>)
        name        == parts[1]
        hasMessage  == Len(parts) >= 2 /\ parts[2] # << >>
        matched     == \E i \in 1..Len(ERROR_CLASSES) : << ERROR_CLASSES[i] >> = name
    IN  ErrorObj(IF matched THEN name[1] ELSE "Error",
                 name,
                 IF hasMessage THEN parts[2] ELSE << >>,
                 IF Len(stack) > 0 THEN Join(stack, << LF >>) ELSE LocalStack)

----------------------------------------------------------------------------
(* JS values and target object graphs *)

\* A JS value: t is its type tag; n the number ("num"), the heap index of
\* the object ("obj") or the index of the function's behaviour ("fn"); s the
\* text ("str").
Val(t, n, s) == [t |-> t, n |-> n, s |-> s]
VUndef   == Val("undef", 0, << >>)
VNull    == Val("null", 0, << >>)
VNum(n)  == Val("num", n, << >>)
VStr(s)  == Val("str", 0, s)
VObj(n)  == Val("obj", n, << >>)
VFn(n)   == Val("fn", n, << >>)

\* A target graph: heap[i] is object i, the sequence of its own enumerable
\* members [k |-> name, v |-> value] in insertion order; root is the value
\* given to handle as target.
Graph(root, heap) == [root |-> root, heap |-> heap]
Member(k, v) == [k |-> k, v |-> v]

\* ToBoolean(v)
Truthy(v) ==
    CASE v.t \in {"undef", "null"} -> FALSE
      [] v.t = "num" -> v.n # 0
      [] v.t = "str" -> v.s # << >>
      [] OTHER -> TRUE

\* The property name of the i-th character of a string value; a symbol
\* of a string value counts as one character
IndexName(i) == << "0", "1", "2", "3" >>[i]

\* Object.keys(v) for a v that is neither null nor undefined: the own
\* enumerable member names of an object, the indices of a string, none
\* for a number or a function
ObjectKeys(g, v) ==
    CASE v.t = "obj" -> [i \in 1..Len(g.heap[v.n]) |-> g.heap[v.n][i].k]
      [] v.t = "str" -> [i \in 1..Len(v.s) |-> IndexName(i)]
      [] OTHER       -> << >>

\* v[key] for a v that is neither null nor undefined: a member of an
\* object, a character of a string, the name of a function
GetProp(g, v, key) ==
    IF v.t = "obj" /\ \E i \in 1..Len(g.heap[v.n]) : g.heap[v.n][i].k = key
    THEN g.heap[v.n][CHOOSE i \in 1..Len(g.heap[v.n]) : g.heap[v.n][i].k = key].v
    ELSE IF v.t = "str" /\ \E i \in 1..Len(v.s) : IndexName(i) = key
    THEN VStr(<< v.s[CHOOSE i \in 1..Len(v.s) : IndexName(i) = key] >>)
    ELSE IF v.t = "fn" /\ key = "name"
    THEN VStr(<< "fn" >>)
    ELSE VUndef

\* get(obj, path): reduce with currentObject ? currentObject[key] : undefined
RECURSIVE get(_, _, _)
get(g, obj, path) ==
    IF Len(path) = 0 THEN obj
    ELSE get(g, IF Truthy(obj) THEN GetProp(g, obj, Head(path)) ELSE VUndef, Tail(path))

\* What calling function n does with (this, args): return a value or throw.
\*   1 returns its first argument, 2 its second, 3 returns nothing,
\*   4 throws a TypeError with a message, 5 an Error with an empty message,
\*   6 a string, 7 null, 8 an Error whose message contains ": ".
ArgAt(args, i) == IF i <= Len(args) THEN args[i] ELSE VUndef
Returns(v) == [throws |-> FALSE, val |-> v, exc |-> NoError]
Throws(e)  == [throws |-> TRUE, val |-> VUndef, exc |-> e]
FnBody(n, this, args) ==
    CASE n = 1 -> Returns(ArgAt(args, 1))
      [] n = 2 -> Returns(ArgAt(args, 2))
      [] n = 3 -> Returns(VUndef)
      [] n = 4 -> Throws(EngineError("TypeError", << "bad" >>))
      [] n = 5 -> Throws(EngineError("Error", << >>))
      [] n = 6 -> Throws(Thrown("str", "", << >>, << >>, << >>))
      [] n = 7 -> Throws(Thrown("null", "", << >>, << >>, << >>))
      [] OTHER -> Throws(EngineError("RangeError", << "a", COLON, SP, "b" >>))

\* A module with functions of every behaviour, members that are no
\* functions, and a nested object
Api ==
    Graph(VObj(1),
      << << Member("greet", VFn(1)), Member("second", VFn(2)), Member("void", VFn(3)),
            Member("boom", VFn(4)), Member("quiet", VFn(5)), Member("str", VFn(6)),
            Member("nul", VFn(7)), Member("count", VNum(5)), Member("zero", VNum(0)),
            Member("name", VStr(<< "x" >>)), Member("none", VNull),
            Member("sub", VObj(2)) >>,
         << Member("greet", VFn(1)), Member("fail", VFn(8)), Member("count", VNum(1)) >> >>)

EmptyGraph == Graph(VObj(1), << << >> >>)

\* Api after sub has been given two more members, one of them under the
\* empty string as its name
ApiGrown ==
    Graph(VObj(1),
      << Api.heap[1],
         Api.heap[2] \o << Member("added", VFn(2)), Member("", VFn(1)) >> >>)

\* A target that is itself a function
FnRoot == Graph(VFn(1), << >>)

----------------------------------------------------------------------------
(* Request, Response, handle *)

Request(id, hasPath, path, args) ==
    [id |-> id, hasPath |-> hasPath, path |-> path, args |-> args]

\* A Response that carries an error string on every branch
ResponseErrorAlways(id, hasPath, path, result, hasError, error) ==
    [id |-> id, hasPath |-> hasPath, path |-> path,
     result |-> result, hasError |-> TRUE, error |-> IF hasError THEN error ELSE << "ok" >>]

\* A Response.  hasError: the error member is a string; result = VUndef:
\* the result member is absent or undefined.
Response(id, hasPath, path, result, hasError, error) ==
    [id |-> id, hasPath |-> hasPath, path |-> path,
     result |-> result, hasError |-> hasError, error |-> error]

NoRequest == Request(UNDEF, FALSE, << >>, << >>)

NoResponse == Response(UNDEF, FALSE, << >>, VUndef, FALSE, << >>)

\* The message of the Error handle makes when func is undefined
UnknownRequestMessage(path, prop, keys) ==
    << "Unknown request \"" >> \o Join([i \in 1..Len(path) |-> << path[i] >>], << "." >>)
        \o << COLON, prop, "\".", SP, LF, "Valid =", SP >>
        \o Join([i \in 1..Len(keys) |-> << keys[i] >>], << "," >>)

\* The TypeError raised by func.apply when func is not a function
NotAFunction(func) ==
    EngineError("TypeError",
        IF func.t = "null" THEN << "Cannot read properties of null (reading 'apply')" >>
        ELSE << "func.apply is not a function" >>)

\* What handle(target, request) did.  raised: it rejected with exc instead of
\* returning res; branch: "unknown" (func === undefined), "ok" (the call
\* returned), "caught" (the call threw and was caught), "raise"; invoked: the
\* invocations made, [fn, this, args].
HandleOut(raised, exc, res, branch, invoked) ==
    [raised |-> raised, exc |-> exc, res |-> res, branch |-> branch, invoked |-> invoked]

CannotRead == EngineError("TypeError", << "Cannot read properties of undefined" >>)

\* request.path.pop(): the method name is taken off the Request's own path
RequestPopped(request) ==
    [request EXCEPT !.path = IF Len(request.path) = 0 THEN << >>
                             ELSE SubSeq(request.path, 1, Len(request.path) - 1)]

\* request.args.splice(0): the arguments are taken out of the Request
RequestDrained(request) == [request EXCEPT !.args = << >>]

\* The Request object as handle leaves it: path is a copy of request.path,
\* pop works on the copy, args is handed to apply as it is
RequestAfter(request) == request

\* A handle that takes the target itself for the function to invoke
handleCallingRoot(g, request) ==
    IF g.root.t = "fn"
    THEN HandleOut(FALSE, NoError,
            Response(request.id, request.hasPath, request.path,
                     FnBody(g.root.n, g.root, request.args).val, FALSE, << >>),
            "ok", << [fn |-> g.root.n, this |-> g.root, args |-> request.args] >>)
    ELSE HandleOut(FALSE, NoError,
            Response(request.id, request.hasPath, request.path, VUndef, TRUE,
                     errorToString(EngineError("Error",
                         UnknownRequestMessage(<< >>, "undefined",
                                               ObjectKeys(g, g.root)))).s),
            "unknown", << >>)

handle(g, request) ==
    LET full   == IF request.hasPath THEN request.path ELSE << >>
        n      == Len(full)
        path   == IF n = 0 THEN << >> ELSE SubSeq(full, 1, n - 1)
        hasProp == n > 0 /\ full[n] # ""
        prop   == IF n = 0 THEN "undefined" ELSE full[n]
        target == IF hasProp THEN get(g, g.root, path) ELSE g.root
        echo(result, hasError, error) ==
            Response(request.id, request.hasPath, request.path, result, hasError, error)
    IN
    IF target.t \in {"null", "undef"}
    THEN \* target[prop], or Object.keys(target), raises outside the try
         HandleOut(TRUE, CannotRead, NoResponse, "raise", << >>)
    ELSE
    LET func == IF hasProp THEN GetProp(g, target, prop) ELSE VUndef IN
    IF func.t = "undef"
    THEN HandleOut(FALSE, NoError,
            echo(VUndef, TRUE,
                 errorToString(EngineError("Error",
                     UnknownRequestMessage(path, prop, ObjectKeys(g, target)))).s),
            "unknown", << >>)
    ELSE
    LET call   == IF func.t = "fn" THEN FnBody(func.n, target, request.args)
                  ELSE Throws(NotAFunction(func))
        invoked == IF func.t = "fn"
                  THEN << [fn |-> func.n, this |-> target, args |-> request.args] >>
                  ELSE << >>
        enc    == errorToString(call.exc)
    IN
    IF ~call.throws
    THEN HandleOut(FALSE, NoError, echo(call.val, FALSE, << >>), "ok", invoked)
    ELSE IF enc.k = "raise"
    THEN HandleOut(TRUE, CannotRead, NoResponse, "raise", invoked)
    ELSE HandleOut(FALSE, NoError, echo(VUndef, enc.k = "str", enc.s), "caught", invoked)

----------------------------------------------------------------------------
(* HTTP messages, the fetch handler and the request router *)

UPI_ID_HEADER  == "X-UPI-ID"
UPI_USER_AGENT == "UPI/1.0"

HeaderNames == {"User-Agent", "Content-Type", "UPI_ID_HEADER", UPI_ID_HEADER}

\* Headers: a value for every header name, NULL for a header that is not set
NoHeaders == [h \in HeaderNames |-> NULL]

\* Headers.get(name)
HeaderGet(headers, name) == headers[name]

\* An HTTP request; body is the parsed JSON body when isJson
HttpRequest(method, headers, isJson, body) ==
    [method |-> method, headers |-> headers, isJson |-> isJson, body |-> body]

\* An HTTP response; body is the parsed JSON body when isJson
HttpResponse(status, headers, isJson, body) ==
    [status |-> status, headers |-> headers, isJson |-> isJson, body |-> body]

NoHttpRequest  == HttpRequest("", NoHeaders, FALSE, Request(UNDEF, FALSE, << >>, << >>))
NoHttpResponse == HttpResponse(0, NoHeaders, FALSE, NoResponse)

\* Response.ok
Ok(response) == response.status >= 200 /\ response.status <= 299

\* JSON.stringify then JSON.parse of an array element: undefined and
\* functions become null
JsonElement(v) == IF v.t \in {"undef", "fn"} THEN VNull ELSE v

\* JSON.stringify then JSON.parse of an object member: undefined and
\* functions are left out, which reads back as undefined
JsonMember(v) == IF v.t \in {"undef", "fn"} THEN VUndef ELSE v

\* The Request as the JSON body {path, args} of fetchHandler carries it
JsonRequestBody(request) ==
    Request(UNDEF, request.hasPath, request.path,
            [i \in 1..Len(request.args) |-> JsonElement(request.args[i])])

\* The Response as Response.json(res) carries it
JsonResponseBody(res) ==
    Response(res.id, res.hasPath, res.path, JsonMember(res.result), res.hasError, res.error)

\* The fetch(input, {method, headers, body}) call of fetchHandler
FetchRequest(request) ==
    HttpRequest("POST",
        [h \in HeaderNames |->
            CASE h = "User-Agent"    -> UPI_USER_AGENT
              [] h = "Content-Type"  -> "application/json"
              [] h = "UPI_ID_HEADER" -> request.id
              [] OTHER               -> NULL],
        TRUE, JsonRequestBody(request))

\* What a Handler did: k = "returned" (res) or "threw" (exc)
HandlerReturned(res) == [k |-> "returned", res |-> res, exc |-> NoError]
HandlerThrew(exc)    == [k |-> "threw", res |-> NoResponse, exc |-> exc]
HandlerPending       == [k |-> "pending", res |-> NoResponse, exc |-> NoError]

\* The status code as text
StatusText(status) ==
    CASE status = 200 -> "200" [] status = 405 -> "405" [] status = 500 -> "500"
      [] OTHER -> "0"

\* response.statusText: the reason phrase that goes with the status
ReasonPhrase(status) ==
    CASE status = 200 -> "OK" [] status = 405 -> "Method Not Allowed"
      [] status = 500 -> "Internal Server Error" [] OTHER -> ""

FailedToFetch(response) ==
    EngineError("Error", << "Failed to fetch", COLON, SP, StatusText(response.status),
                            SP, ReasonPhrase(response.status) >>)

InvalidResponse(request, response) ==
    EngineError("Error",
        << "Invalid response", COLON, SP, StatusText(response.status), "req=", request.id,
           "res=", HeaderGet(response.headers, UPI_ID_HEADER) >>)

NotJson == EngineError("SyntaxError", << "Unexpected token" >>)

\* fetchHandler without the comparison of the correlation header
fetchHandlerUnchecked(request, response) ==
    IF ~Ok(response) THEN HandlerThrew(FailedToFetch(response))
    ELSE IF ~response.isJson THEN HandlerThrew(NotJson)
    ELSE HandlerReturned(response.body)

\* fetchHandler with the correlation header compared before the status
fetchHandlerIdFirst(request, response) ==
    IF HeaderGet(response.headers, UPI_ID_HEADER) # request.id
    THEN HandlerThrew(InvalidResponse(request, response))
    ELSE IF ~Ok(response) THEN HandlerThrew(FailedToFetch(response))
    ELSE IF ~response.isJson THEN HandlerThrew(NotJson)
    ELSE HandlerReturned(response.body)

\* fetchHandler from the point where fetch has resolved with response
fetchHandler(request, response) ==
    IF ~Ok(response) THEN HandlerThrew(FailedToFetch(response))
    ELSE IF HeaderGet(response.headers, UPI_ID_HEADER) # request.id
    THEN HandlerThrew(InvalidResponse(request, response))
    ELSE IF ~response.isJson THEN HandlerThrew(NotJson)
    ELSE HandlerReturned(response.body)

\* What the router's handler did with a request: it rejected, or it
\* returned response; out is what handle did, when it was called.
\* imported: import(modPath) was called.
RouterOut(rejected, response, dispatched, out, imported) ==
    [rejected |-> rejected, response |-> response, dispatched |-> dispatched, out |-> out,
     imported |-> imported]

NoHandleOut == HandleOut(FALSE, NoError, NoResponse, "", << >>)
NoRouterOut == RouterOut(FALSE, NoHttpResponse, FALSE, NoHandleOut, FALSE)

\* The handler of createRequestHandler, POST branch; mod is the module that
\* import(modPath) yields, loaded tells whether that import succeeds.
routerPost(request, loaded, mod) ==
    IF ~request.isJson
    THEN RouterOut(TRUE, NoHttpResponse, FALSE, NoHandleOut, FALSE)
    ELSE IF ~loaded
    THEN RouterOut(TRUE, NoHttpResponse, FALSE, NoHandleOut, TRUE)
    ELSE
    LET out     == handle(mod, request.body)
        got     == HeaderGet(request.headers, UPI_ID_HEADER)
        echoed  == IF got \in {NULL, ""} THEN "" ELSE got
        headers == [h \in HeaderNames |->
                      CASE h = "Content-Type" -> "application/json"
                        [] h = UPI_ID_HEADER  -> echoed
                        [] OTHER              -> NULL]
    IN  IF out.raised
        THEN RouterOut(TRUE, NoHttpResponse, TRUE, out, TRUE)
        ELSE RouterOut(FALSE, HttpResponse(200, headers, TRUE, JsonResponseBody(out.res)),
                       TRUE, out, TRUE)

\* The kinds of pathname the GET branch tells apart: one ending in '/',
\* one of /upi, /upi.ts and /upi.js, any other
Pathnames == {"dir", "upi", "mod"}

ContentType(type) == [NoHeaders EXCEPT !["Content-Type"] = type]

\* A JSON body {error: message}
ErrorBody(message) == Response(UNDEF, FALSE, << >>, VUndef, TRUE, message)

\* The handler of createRequestHandler, GET branch; done tells whether the
\* readDir, readFile or import the branch awaits succeeds
routerGet(pathname, done) ==
    CASE pathname = "dir" ->
            IF done
            THEN RouterOut(FALSE, HttpResponse(200, ContentType("application/json"),
                                               TRUE, NoResponse),
                           FALSE, NoHandleOut, FALSE)
            ELSE RouterOut(TRUE, NoHttpResponse, FALSE, NoHandleOut, FALSE)
      [] pathname = "upi" ->
            IF done
            THEN RouterOut(FALSE, HttpResponse(200, ContentType("application/typescript"),
                                               FALSE, NoResponse),
                           FALSE, NoHandleOut, FALSE)
            ELSE RouterOut(TRUE, NoHttpResponse, FALSE, NoHandleOut, FALSE)
      [] OTHER ->
            IF done
            THEN RouterOut(FALSE, HttpResponse(200, ContentType("application/typescript"),
                                               FALSE, NoResponse),
                           FALSE, NoHandleOut, TRUE)
            ELSE RouterOut(FALSE, HttpResponse(500, ContentType("application/json"),
                                               TRUE, ErrorBody(<< "Module not found" >>)),
                           FALSE, NoHandleOut, TRUE)

MethodNotAllowed ==
    HttpResponse(405, ContentType("application/json"), TRUE,
                 ErrorBody(<< "Method not allowed" >>))

\* A handler that takes every method but GET for a POST
requestHandlerAnyPost(request, pathname, loaded, mod) ==
    IF request.method = "GET" THEN routerGet(pathname, loaded)
    ELSE routerPost(request, loaded, mod)

\* The handler of createRequestHandler
requestHandler(request, pathname, loaded, mod) ==
    IF request.method = "POST" THEN routerPost(request, loaded, mod)
    ELSE IF request.method = "GET" THEN routerGet(pathname, loaded)
    ELSE RouterOut(FALSE, MethodNotAllowed, FALSE, NoHandleOut, FALSE)

\* The answer the HTTP runtime gives when the router's handler rejected
InternalServerError == HttpResponse(500, NoHeaders, FALSE, NoResponse)

\* localHandler from the point where import(url) has settled
ModuleNotFound == EngineError("TypeError", << "Module not found" >>)

\* A local handler that answers a failed import with an error Response
localHandlerCatching(request, loaded, mod) ==
    IF ~loaded
    THEN HandlerReturned(Response(request.id, request.hasPath, request.path, VUndef,
                                  TRUE, errorToString(ModuleNotFound).s))
    ELSE LET out == handle(mod, request) IN
         IF out.raised THEN HandlerThrew(out.exc) ELSE HandlerReturned(out.res)

\* What localHandler did on the way: the import, and the call of handle
\* when the import succeeded
localDispatch(request, loaded, mod) ==
    IF ~loaded THEN RouterOut(TRUE, NoHttpResponse, FALSE, NoHandleOut, TRUE)
    ELSE LET out == handle(mod, request) IN
         RouterOut(out.raised, NoHttpResponse, TRUE, out, TRUE)

localHandler(request, loaded, mod) ==
    IF ~loaded THEN HandlerThrew(ModuleNotFound)
    ELSE LET out == handle(mod, request) IN
         IF out.raised THEN HandlerThrew(out.exc) ELSE HandlerReturned(out.res)

----------------------------------------------------------------------------
(* The path proxy *)

\* args.some(a => a == undefined): null counts as undefined too
IncludesNullish(args) == \E i \in 1..Len(args) : args[i].t \in {"undef", "null"}

\* args.includes(undefined)
IncludesUndefined(args) == \E i \in 1..Len(args) : args[i].t = "undef"

UndefinedNotAllowedError(prop) ==
    ErrorObj("UndefinedNotAllowedError", << "UndefinedNotAllowed" >>,
             << prop, COLON, SP, "undefined not allowed, use null instead" >>,
             << "at proxy" >>)

\* How the call settles.  outcome: "resolved" with value, "rejected" with
\* failure, "pending".
Settled(outcome, value, failure) ==
    [outcome |-> outcome, value |-> value, failure |-> failure]

\* The proxy's async closure from the point where handler(target, req) has
\* settled with h
proxyReturn(h) ==
    IF h.k = "threw" THEN Settled("rejected", VUndef, h.exc)
    ELSE IF h.res.hasError /\ h.res.error # << >>
    THEN Settled("rejected", VUndef, stringToError(h.res.error))
    ELSE Settled("resolved", h.res.result, NoError)

----------------------------------------------------------------------------
(* SpecCodec: errorToString then stringToError on a bounded set of failures *)

MsgSymbols == {"m", COLON, SP, LF}

RECURSIVE SeqsUpTo(_, _)
SeqsUpTo(S, n) ==
    IF n = 0 THEN {<< >>}
    ELSE LET shorter == SeqsUpTo(S, n - 1) IN
         shorter \cup {Append(s, x) : s \in {t \in shorter : Len(t) = n - 1}, x \in S}

CodecKinds == {"TypeError", "RangeError", "Error", "MyError"}

CodecFailures ==
    { ErrorObj(ClassOf(k), << k >>, m, st) :
        k \in CodecKinds, m \in SeqsUpTo(MsgSymbols, MaxMsgLen), st \in {<< "at f" >>} }
    \cup
    { ErrorObj(ClassOf(k), << k >>, m, EngineStack(k, m)) :
        k \in CodecKinds, m \in SeqsUpTo(MsgSymbols, MaxMsgLen) }

CodecIdle ==
    /\ cpc = "off"
    /\ cfail = NoError
    /\ cenc = << >>
    /\ cdec = NoError

HandleIdle ==
    /\ hpc = "off"
    /\ htarget = EmptyGraph
    /\ hreq = Request(UNDEF, FALSE, << >>, << >>)
    /\ hout = NoHandleOut
    /\ hout2 = NoHandleOut

RouterIdle ==
    /\ rpc = "off"
    /\ rreq = NoHttpRequest
    /\ rurl = ""
    /\ rdid = NoRouterOut

ProxyIdle ==
    /\ binding = [handler |-> "off", endpoint |-> "", threw |-> FALSE]
    /\ proxies = << >>
    /\ calls = << >>

CodecInit ==
    /\ cpc = "in"
    /\ cfail \in CodecFailures
    /\ cenc = << >>
    /\ cdec = NoError
    /\ HandleIdle
    /\ RouterIdle
    /\ ProxyIdle

Encode ==
    /\ cpc = "in"
    /\ cenc' = errorToString(cfail).s
    /\ cpc' = "enc"
    /\ UNCHANGED <<routerVars, cfail, cdec, handleVars, proxyVars>>

Decode ==
    /\ cpc = "enc"
    /\ cdec' = stringToError(cenc)
    /\ cpc' = "dec"
    /\ UNCHANGED <<routerVars, cfail, cenc, handleVars, proxyVars>>

CodecNext == Encode \/ Decode

SpecCodec == CodecInit /\ [][CodecNext]_vars

----------------------------------------------------------------------------
(* SpecHandle: handle on a bounded set of target graphs and Requests *)

Targets == {Api, EmptyGraph, ApiGrown, FnRoot}

HandleProps == {"greet", "second", "void", "boom", "quiet", "str", "nul", "count",
                "zero", "name", "none", "sub", "fail", "missing", "added", "0", ""}

HandleArgs == {<< >>, << VStr(<< "Ada" >>) >>, << VNum(1), VNull >>}

HandleRequests ==
    { Request(id, TRUE, p, a) :
        id \in {"1", "2"}, p \in SeqsUpTo(HandleProps, MaxPathLen), a \in HandleArgs }
    \cup { Request(id, FALSE, << >>, a) : id \in {"1", "2"}, a \in HandleArgs }

HandleInit ==
    /\ hpc = "in"
    /\ htarget \in Targets
    /\ hreq \in HandleRequests
    /\ hout = NoHandleOut
    /\ hout2 = NoHandleOut
    /\ CodecIdle
    /\ RouterIdle
    /\ ProxyIdle

Dispatch ==
    /\ hpc = "in"
    /\ hout' = handle(htarget, hreq)
    /\ hreq' = RequestAfter(hreq)
    /\ hpc' = "done"
    /\ UNCHANGED <<routerVars, htarget, hout2, codecVars, proxyVars>>

\* handle once more, with the same Request object and the same target
DispatchAgain ==
    /\ hpc = "done"
    /\ hout2' = handle(htarget, hreq)
    /\ hreq' = RequestAfter(hreq)
    /\ hpc' = "again"
    /\ UNCHANGED <<routerVars, htarget, hout, codecVars, proxyVars>>

HandleNext == Dispatch \/ DispatchAgain

SpecHandle == HandleInit /\ [][HandleNext]_vars

----------------------------------------------------------------------------
(* SpecRouter: the router's handler on a bounded set of HTTP requests *)

Methods == {"POST", "GET", "PUT", "DELETE"}

RouterPaths ==
    { << "greet" >>, << "boom" >>, << "nul" >>, << "str" >>, << "count" >>,
      << "missing" >>, << "sub", "greet" >>, << "none", "x" >>, << >> }

\* The JSON bodies: {path, args} as fetchHandler sends it, the same with
\* an id member, and {args} with no path
RouterBodies ==
    { Request(id, TRUE, p, << VStr(<< "Ada" >>) >>) :
        id \in {UNDEF, "7"}, p \in RouterPaths }
    \cup { Request(UNDEF, FALSE, << >>, << VStr(<< "Ada" >>) >>) }

RouterRequests ==
    { HttpRequest(m, [NoHeaders EXCEPT ![UPI_ID_HEADER] = id], TRUE, b) :
        m \in Methods, id \in {NULL, "", "000000000000001"}, b \in RouterBodies }
    \cup
    { HttpRequest(m, [NoHeaders EXCEPT ![UPI_ID_HEADER] = id], FALSE, NoRequest) :
        m \in Methods, id \in {NULL, "000000000000001"} }

RouterInit ==
    /\ rpc = "in"
    /\ rreq \in RouterRequests
    /\ rurl \in Pathnames
    /\ rdid = NoRouterOut
    /\ CodecIdle
    /\ HandleIdle
    /\ ProxyIdle

\* The router's handler is called with the request
Serve ==
    /\ rpc = "in"
    /\ \E loaded \in BOOLEAN :
          rdid' = requestHandler(rreq, rurl, loaded, Api)
    /\ rpc' = "done"
    /\ UNCHANGED <<rreq, rurl, codecVars, handleVars, proxyVars>>

RouterNext == Serve

SpecRouter == RouterInit /\ [][RouterNext]_vars

----------------------------------------------------------------------------
(* Spec: upi / proxy, member accesses, invocations, and the handlers' awaits *)

\* The ids uid() may yield: 15 decimal digits
Uids  == {"000000000000001", "000000000000002"}

\* uid() yields any id, whether in use or not.  Ids are opaque, so of the
\* ids no Request carries yet only the first is taken.
UidsNow(cs) ==
    LET used   == {cs[c].req.id : c \in {d \in 1..Len(cs) : cs[d].built}}
        unused == Uids \ used
    IN  used \cup (IF "000000000000001" \in unused THEN {"000000000000001"} ELSE unused)
Props == {"greet", "boom"}

\* The argument lists callers pass
ArgLists == { << VStr(<< "Ada" >>), VNull >>, << VNum(1), VUndef >> }

\* The URLs given to upi; serves tells what answers at an http(s) URL: the
\* request router of this package, or some other endpoint
Urls ==
    { [protocol |-> "http:",  serves |-> "router"],
      [protocol |-> "https:", serves |-> "other"],
      [protocol |-> "file:",  serves |-> ""],
      [protocol |-> "ftp:",   serves |-> ""] }

Binding(handler, endpoint, threw) ==
    [handler |-> handler, endpoint |-> endpoint, threw |-> threw]

\* upi with the local handler for every protocol that is not http(s)
upiLocalByDefault(url) ==
    CASE url.protocol \in {"http:", "https:"} -> Binding("fetch", url.serves, FALSE)
      [] OTHER                                -> Binding("local", "", FALSE)

\* upi(input): the Handler the returned proxy is bound to, or the throw
upi(url) ==
    CASE url.protocol \in {"http:", "https:"} -> Binding("fetch", url.serves, FALSE)
      [] url.protocol = "file:"               -> Binding("local", "", FALSE)
      [] OTHER                                -> Binding("none", "", TRUE)

\* A proxy.  path: the `path` variable of the createProxyHandler call that
\* made this proxy's traps; src: the proxy whose get trap returned this
\* one (0 for the root), whose `path` variable the callable reads when it
\* is invoked; prop: the member name of that access; chain: the member
\* names accessed from the root to obtain this proxy (history, not read
\* by any action).
ProxyObj(chain, path, src, prop) ==
    [chain |-> chain, path |-> path, src |-> src, prop |-> prop]

\* new Proxy(target, createProxyHandler([]))
RootProxy == ProxyObj(<< >>, << >>, 0, "")

\* The get trap of proxy i for member prop
proxyGet(ps, i, prop) ==
    LET path == Append(ps[i].path, prop) IN
    Append([ps EXCEPT ![i].path = path],
           ProxyObj(Append(ps[i].chain, prop), path, i, prop))

\* An invocation of a callable.  pc: "fetch" (the HTTP request is on its
\* way), "response" (the HTTP response is on its way back), "import" (the
\* local handler awaits import), "handler" (a caller-supplied handler is
\* awaited), "done"; built: a Request was built; ncalls: the number of times
\* the Handler was called; httpReq, rout, httpRes: the HTTP request, what the
\* router did with it, the HTTP response; hres: what the Handler did;
\* settle: how the call settled.
Call(callable, args, pc, built, req, ncalls, httpReq, rout, httpRes, hres, settle) ==
    [callable |-> callable, args |-> args, pc |-> pc, built |-> built, req |-> req,
     ncalls |-> ncalls, httpReq |-> httpReq, rout |-> rout, httpRes |-> httpRes,
     hres |-> hres,
     settle |-> settle]

Pending   == Settled("pending", VUndef, NoError)

\* The closure with a handler that is called again when its first call
\* has settled
proxyCallTwice(ps, i, args, id, handler) ==
    LET req == Request(id, TRUE, ps[ps[i].src].path, args) IN
    Call(i, args,
         CASE handler = "fetch" -> "fetch" [] handler = "local" -> "import"
           [] OTHER -> "handler",
         TRUE, req, 2,
         IF handler = "fetch" THEN FetchRequest(req) ELSE NoHttpRequest,
         NoRouterOut, NoHttpResponse, HandlerPending, Pending)

\* The proxy's async closure up to its await: callable i of ps is invoked
\* with args, uid() yields id, the proxy is bound to handler
proxyCall(ps, i, args, id, handler) ==
    IF IncludesUndefined(args)
    THEN Call(i, args, "done", FALSE, NoRequest, 0, NoHttpRequest, NoRouterOut,
              NoHttpResponse, HandlerPending,
              Settled("rejected", VUndef, UndefinedNotAllowedError(ps[i].prop)))
    ELSE
    LET req == Request(id, TRUE, ps[ps[i].src].path, args) IN
    Call(i, args,
         CASE handler = "fetch" -> "fetch" [] handler = "local" -> "import"
           [] OTHER -> "handler",
         TRUE, req, 1,
         IF handler = "fetch" THEN FetchRequest(req) ELSE NoHttpRequest,
         NoRouterOut, NoHttpResponse, HandlerPending, Pending)

\* What an endpoint that is not the request router may answer: the
\* correlation header echoed, another id, or none; a body with a result or
\* with an error; a status that is not a success
OtherUid(id) == CHOOSE u \in Uids : u # id
OkBody(req)  == Response(req.id, TRUE, req.path, VStr(<< "ok" >>), FALSE, << >>)
ErrBody(req) ==
    Response(req.id, TRUE, req.path, VUndef, TRUE,
             errorToString(EngineError("TypeError", << "bad" >>)).s)
Echoing(id) == [NoHeaders EXCEPT ![UPI_ID_HEADER] = id]

OtherResponses(req) ==
    { HttpResponse(200, Echoing(req.id), TRUE, OkBody(req)),
      HttpResponse(200, Echoing(req.id), TRUE, ErrBody(req)),
      HttpResponse(200, Echoing(OtherUid(req.id)), TRUE, OkBody(req)),
      HttpResponse(200, NoHeaders, TRUE, ErrBody(req)),
      HttpResponse(500, Echoing(req.id), TRUE, OkBody(req)) }

\* What a caller-supplied Handler may do: return a Response with a result,
\* with neither result nor error, with an error, with the empty string as
\* error, or throw
CustomResults(req) ==
    { HandlerReturned(OkBody(req)),
      HandlerReturned(Response(req.id, TRUE, req.path, VUndef, FALSE, << >>)),
      HandlerReturned(ErrBody(req)),
      HandlerReturned(Response(req.id, TRUE, req.path, VUndef, TRUE, << >>)),
      HandlerThrew(EngineError("Error", << "handler failed" >>)) }

\* The oldest response not yet consumed: responses taken in arrival order
AwaitedOldest(cs, c) ==
    LET waiting == {d \in 1..Len(cs) : cs[d].pc = "response"} IN
    cs[CHOOSE d \in waiting : \A o \in waiting : d <= o].httpRes

\* The response the promise of call c's fetch resolves with: every fetch
\* call returns a promise of its own
Awaited(cs, c) == cs[c].httpRes

Init ==
    /\ binding = Binding("none", "", FALSE)
    /\ proxies = << >>
    /\ calls = << >>
    /\ CodecIdle
    /\ HandleIdle
    /\ RouterIdle

\* upi(input)
Upi ==
    /\ binding = Binding("none", "", FALSE)
    /\ \E url \in Urls :
        /\ binding' = upi(url)
        /\ proxies' = IF upi(url).threw THEN << >> ELSE << RootProxy >>
    /\ UNCHANGED <<routerVars, calls, codecVars, handleVars>>

\* proxy(target, handler) with a handler of the caller's
ProxyWithHandler ==
    /\ binding = Binding("none", "", FALSE)
    /\ binding' = Binding("custom", "", FALSE)
    /\ proxies' = << RootProxy >>
    /\ UNCHANGED <<routerVars, calls, codecVars, handleVars>>

\* A member access on a proxy
Access ==
    /\ Len(proxies) >= 1
    /\ Len(proxies) <= MaxProxies
    /\ \E i \in 1..Len(proxies), prop \in Props :
        proxies' = proxyGet(proxies, i, prop)
    /\ UNCHANGED <<routerVars, binding, calls, codecVars, handleVars>>

\* A callable is invoked
Invoke ==
    /\ Len(calls) < MaxCalls
    /\ \E i \in 1..Len(proxies), args \in ArgLists, id \in UidsNow(calls) :
        /\ proxies[i].src # 0
        /\ calls' = Append(calls, proxyCall(proxies, i, args, id, binding.handler))
    /\ UNCHANGED <<routerVars, binding, proxies, codecVars, handleVars>>

\* The request router answers a POST
RouterServe ==
    /\ binding.endpoint = "router"
    /\ \E c \in 1..Len(calls), loaded \in BOOLEAN :
        /\ calls[c].pc = "fetch"
        /\ LET out == routerPost(calls[c].httpReq, loaded, Api) IN
           calls' = [calls EXCEPT ![c].pc = "response", ![c].rout = out,
                        ![c].httpRes = IF out.rejected THEN InternalServerError
                                     ELSE out.response]
    /\ UNCHANGED <<routerVars, binding, proxies, codecVars, handleVars>>

\* Another endpoint answers a POST
OtherServe ==
    /\ binding.endpoint = "other"
    /\ \E c \in 1..Len(calls) :
        /\ calls[c].pc = "fetch"
        /\ \E response \in OtherResponses(calls[c].req) :
            calls' = [calls EXCEPT ![c].pc = "response", ![c].httpRes = response]
    /\ UNCHANGED <<routerVars, binding, proxies, codecVars, handleVars>>

\* fetch resolves: fetchHandler and then the proxy's closure run on
FetchSettle ==
    /\ \E c \in 1..Len(calls) :
        /\ calls[c].pc = "response"
        /\ LET h == fetchHandler(calls[c].req, Awaited(calls, c)) IN
           calls' = [calls EXCEPT ![c].pc = "done", ![c].hres = h,
                                  ![c].settle = proxyReturn(h)]
    /\ UNCHANGED <<routerVars, binding, proxies, codecVars, handleVars>>

\* import settles: localHandler and then the proxy's closure run on
LocalSettle ==
    /\ \E c \in 1..Len(calls), loaded \in BOOLEAN :
        /\ calls[c].pc = "import"
        /\ LET h == localHandler(calls[c].req, loaded, Api) IN
           calls' = [calls EXCEPT ![c].pc = "done", ![c].hres = h,
                                  ![c].rout = localDispatch(calls[c].req, loaded, Api),
                                  ![c].settle = proxyReturn(h)]
    /\ UNCHANGED <<routerVars, binding, proxies, codecVars, handleVars>>

\* The caller's handler settles: the proxy's closure runs on
CustomSettle ==
    /\ \E c \in 1..Len(calls) :
        /\ calls[c].pc = "handler"
        /\ \E h \in CustomResults(calls[c].req) :
            calls' = [calls EXCEPT ![c].pc = "done", ![c].hres = h,
                                   ![c].settle = proxyReturn(h)]
    /\ UNCHANGED <<routerVars, binding, proxies, codecVars, handleVars>>

Next ==
    \/ Upi
    \/ ProxyWithHandler
    \/ Access
    \/ Invoke
    \/ RouterServe
    \/ OtherServe
    \/ FetchSettle
    \/ LocalSettle
    \/ CustomSettle

Spec == Init /\ [][Next]_vars

----------------------------------------------------------------------------
(* SpecPair: several invocations outstanding at once on the callable      *)
(* p.greet, or on the callables p.greet and p.boom, of one root proxy p    *)

Bindings ==
    { Binding("fetch", "router", FALSE), Binding("fetch", "other", FALSE),
      Binding("local", "", FALSE), Binding("custom", "", FALSE) }

PairInit ==
    /\ binding \in Bindings
    /\ proxies \in { proxyGet(<< RootProxy >>, 1, "greet"),
                      proxyGet(proxyGet(<< RootProxy >>, 1, "greet"), 1, "boom") }
    /\ calls = << >>
    /\ CodecIdle
    /\ HandleIdle
    /\ RouterIdle

\* A callable is invoked while earlier invocations may be outstanding
InvokeMore ==
    /\ Len(calls) < MaxOutstanding
    /\ \E i \in 1..Len(proxies), args \in ArgLists, id \in UidsNow(calls) :
        /\ proxies[i].src # 0
        /\ calls' = Append(calls, proxyCall(proxies, i, args, id, binding.handler))
    /\ UNCHANGED <<routerVars, binding, proxies, codecVars, handleVars>>

PairNext ==
    \/ InvokeMore
    \/ RouterServe
    \/ OtherServe
    \/ FetchSettle
    \/ LocalSettle
    \/ CustomSettle

SpecPair == PairInit /\ [][PairNext]_vars

----------------------------------------------------------------------------
(* Claims *)

DoneCalls == {c \in 1..Len(calls) : calls[c].pc = "done"}

\* The number of times the Handler has been called
RECURSIVE HandlerInvocations(_)
HandlerInvocations(cs) ==
    IF cs = << >> THEN 0 ELSE cs[1].ncalls + HandlerInvocations(Tail(cs))

\* C1: every Request a callable sends carries the chain of member accesses
\* that led from the root proxy to the callable as its path, and the
\* arguments of the invocation in their order as its args.
C1_RequestCarriesChain ==
    \A c \in 1..Len(calls) :
        calls[c].built =>
            /\ calls[c].req.path = proxies[calls[c].callable].chain
            /\ calls[c].req.args = calls[c].args

\* C2: once a callable has been obtained, no later member access or
\* invocation changes the path it sends.
C2_CallablePathFixed ==
    [][\A i \in 1..Len(proxies) :
          proxies[i].src # 0 =>
              proxies'[proxies[i].src].path = proxies[proxies[i].src].path]_vars

\* C3: a call through the fetch handler to the request router, for a path
\* naming a function, resolves with what the function returned, or fails
\* with the decoded error when the function threw.
C3_RemoteCallSettles ==
    \A c \in DoneCalls :
        (binding.endpoint = "router" /\ calls[c].rout.dispatched) =>
            /\ calls[c].rout.out.branch = "ok" =>
                  calls[c].settle =
                      Settled("resolved", calls[c].rout.out.res.result, NoError)
            /\ (calls[c].rout.out.branch = "caught" /\ calls[c].rout.out.res.hasError) =>
                  calls[c].settle =
                      Settled("rejected", VUndef, stringToError(calls[c].rout.out.res.error))

\* C4: the fetch handler sends the Request id in the header named
\* UPI_ID_HEADER, the header the router echoes and the fetch handler checks.
C4_IdHeaderSent ==
    \A c \in 1..Len(calls) :
        calls[c].httpReq.method = "POST" =>
            HeaderGet(calls[c].httpReq.headers, UPI_ID_HEADER) = calls[c].req.id

\* C5: a response with a success status whose correlation header is absent
\* or differs from the Request id makes the fetch handler throw its
\* "Invalid response" failure; no Response is returned and the call fails
\* with that failure, whatever the body holds.
C5_MismatchFails ==
    \A c \in DoneCalls :
        ( /\ binding.handler = "fetch"
          /\ calls[c].httpRes.status >= 200 /\ calls[c].httpRes.status <= 299
          /\ calls[c].httpRes.headers[UPI_ID_HEADER] # calls[c].req.id ) =>
            /\ calls[c].hres.k = "threw"
            /\ calls[c].hres.res = NoResponse
            /\ calls[c].hres.exc.name = << "Error" >>
            /\ SubSeq(calls[c].hres.exc.message, 1, 1) = << "Invalid response" >>
            /\ calls[c].settle = Settled("rejected", VUndef, calls[c].hres.exc)

\* A response with status 200, another id in the correlation header and a
\* well-formed body with a result has been received and the call failed.
C5_Witness ==
    \E c \in DoneCalls :
        /\ binding.handler = "fetch"
        /\ calls[c].httpRes.status = 200
        /\ calls[c].httpRes.headers[UPI_ID_HEADER] \in Uids \ {calls[c].req.id}
        /\ calls[c].httpRes.isJson
        /\ calls[c].httpRes.body.result = VStr(<< "ok" >>)
        /\ calls[c].settle.outcome = "rejected"

\* C6: whatever the invoked function throws, handle does not raise and
\* returns a Response whose error is the encoding of what was thrown and
\* whose result is absent.
C6_ThrownIsEncoded ==
    ( /\ hpc = "done"
      /\ Len(hout.invoked) = 1
      /\ FnBody(hout.invoked[1].fn, hout.invoked[1].this, hout.invoked[1].args).throws ) =>
        /\ ~hout.raised
        /\ hout.res.hasError
        /\ hout.res.error =
              errorToString(FnBody(hout.invoked[1].fn, hout.invoked[1].this,
                                   hout.invoked[1].args).exc).s
        /\ hout.res.result = VUndef

----------------------------------------------------------------------------
\* C7: round trip of a failure with a non-empty message keeps message, kind
\* name and, for a catalog kind, the concrete class.
C7_RoundTrip ==
    (cpc = "dec" /\ cfail.message # << >>) =>
        /\ cdec.message = cfail.message
        /\ cdec.name = cfail.name
        /\ (ClassOf(cfail.name[1]) # "Error" => cdec.cls = cfail.name[1])

\* C8: when the Handler returned a Response with an error, the call fails
\* with the failure decoded from it; without an error it returns the result;
\* the Handler was called once.
C8_ErrorFailsTheCall ==
    \A c \in DoneCalls :
        calls[c].hres.k = "returned" =>
            /\ calls[c].ncalls = 1
            /\ IF calls[c].hres.res.hasError
               THEN calls[c].settle =
                        Settled("rejected", VUndef, stringToError(calls[c].hres.res.error))
               ELSE calls[c].settle =
                        Settled("resolved", calls[c].hres.res.result, NoError)

\* C9: an invocation with an undefined argument fails at once with the
\* UndefinedNotAllowed failure, without a Request and without a call of the
\* Handler; an invocation whose arguments hold null but not undefined builds
\* its Request and calls the Handler.
C9_UndefinedFailsLocally ==
    \A c \in 1..Len(calls) :
        IF \E i \in 1..Len(calls[c].args) : calls[c].args[i] = VUndef
        THEN /\ calls[c].pc = "done"
             /\ calls[c].settle.outcome = "rejected"
             /\ calls[c].settle.failure.cls = "UndefinedNotAllowedError"
             /\ calls[c].settle.failure.name = << "UndefinedNotAllowed" >>
             /\ ~calls[c].built
             /\ calls[c].ncalls = 0
             /\ calls[c].httpReq = NoHttpRequest
        ELSE /\ calls[c].built
             /\ calls[c].ncalls = 1
             /\ calls[c].settle.failure.name # << "UndefinedNotAllowed" >>

\* An invocation with an undefined argument has failed.
C9_Witness ==
    \E c \in DoneCalls :
        /\ \E i \in 1..Len(calls[c].args) : calls[c].args[i] = VUndef
        /\ calls[c].settle.outcome = "rejected"

\* C10: when the last path element names a member of the container that is
\* no function, handle returns the unknown-request error Response listing
\* the container's member names and invokes nothing.
C10_NonFunctionIsUnknown ==
    LET n         == Len(hreq.path)
        path      == SubSeq(hreq.path, 1, n - 1)
        container == get(htarget, htarget.root, path)
    IN  ( /\ hpc = "done"
          /\ n >= 1
          /\ container.t \notin {"null", "undef"}
          /\ GetProp(htarget, container, hreq.path[n]).t # "fn" ) =>
            /\ ~hout.raised
            /\ hout.invoked = << >>
            /\ hout.res.hasError
            /\ hout.res.error =
                  errorToString(EngineError("Error",
                      UnknownRequestMessage(path, hreq.path[n],
                                            ObjectKeys(htarget, container)))).s

\* C11: handle leaves the Request as it was, and every Response it returns,
\* on the success branch and on both error branches, carries the Request's
\* id and the Request's path (absent when the Request has none).
C11_EchoesIdAndPath ==
    [][hpc = "in" =>
          /\ hreq' = hreq
          /\ ~hout'.raised =>
                /\ hout'.res.id = hreq.id
                /\ hout'.res.hasPath = hreq.hasPath
                /\ hout'.res.path = hreq.path]_vars

\* handle has returned the Response of a thrown failure for a Request with a
\* path of two elements.
C11_Witness ==
    /\ hpc = "done"
    /\ ~hout.raised
    /\ hout.branch = "caught"
    /\ Len(hreq.path) = 2
    /\ hout.res.path = hreq.path
    /\ hout.res.id = "2"

\* C12: the Response a completed call's Handler delivers carries the id of
\* the Request built for the call: the Response the local handler returns,
\* and the Response in the body the request router answers with, which is
\* what the fetch handler returns.
C12_ResponseIdMatches ==
    \A c \in DoneCalls :
        /\ (binding.handler = "local" /\ calls[c].hres.k = "returned") =>
              calls[c].hres.res.id = calls[c].req.id
        /\ (binding.endpoint = "router" /\ calls[c].rout.dispatched
               /\ ~calls[c].rout.rejected) =>
              /\ calls[c].httpRes.isJson
              /\ calls[c].httpRes.body.id = calls[c].req.id

\* C13: making a proxy and accessing members, at any depth, calls the
\* Handler zero times; the number of Handler calls grows only when a
\* callable is invoked, by one when no argument is undefined and by none
\* otherwise.
C13_OnlyInvocationCallsHandler ==
    [][/\ (binding' # binding \/ proxies' # proxies) =>
             HandlerInvocations(calls') = HandlerInvocations(calls)
       /\ Len(calls') = Len(calls) =>
             HandlerInvocations(calls') = HandlerInvocations(calls)
       /\ Len(calls') = Len(calls) + 1 =>
             HandlerInvocations(calls') =
                 HandlerInvocations(calls) +
                 (IF \E a \in 1..Len(calls'[Len(calls')].args) :
                         calls'[Len(calls')].args[a] = VUndef
                  THEN 0 ELSE 1)]_vars

\* Members were accessed two deep, and the callable reached was invoked:
\* the Handler has been called once.
C13_Witness ==
    /\ \E i \in 1..Len(proxies) : Len(proxies[i].chain) = 2
    /\ Len(calls) = 1
    /\ Len(proxies[calls[1].callable].chain) = 2
    /\ HandlerInvocations(calls) = 1

\* C14: for every POST the router dispatches, the router answers with
\* status 200, with the dispatcher's Response as its JSON body, whether it
\* holds a result or an error, and with the correlation header of the
\* incoming request as its correlation header.
C14_DispatchedPostIs200 ==
    (rpc = "done" /\ rreq.method = "POST" /\ rdid.dispatched) =>
        /\ ~rdid.rejected
        /\ rdid.response.status = 200
        /\ rdid.response.isJson
        /\ rdid.response.body = JsonResponseBody(rdid.out.res)
        /\ HeaderGet(rdid.response.headers, UPI_ID_HEADER) =
              HeaderGet(rreq.headers, UPI_ID_HEADER)

\* C15: a POST whose JSON body has no path is not answered with a status
\* 200 dispatch Response: the router fails, or answers with another status.
C15_MissingPathIsTransportFailure ==
    (rpc = "done" /\ rreq.method = "POST" /\ rreq.isJson /\ ~rreq.body.hasPath) =>
        \/ rdid.rejected
        \/ rdid.response.status # 200

\* C17: a request whose method is neither POST nor GET is answered with
\* the "Method not allowed" response of status 405; no module is imported
\* and the dispatcher is not called.
C17_OtherMethodIs405 ==
    (rpc = "done" /\ rreq.method \notin {"POST", "GET"}) =>
        /\ ~rdid.rejected
        /\ rdid.response.status = 405
        /\ rdid.response.body.error = << "Method not allowed" >>
        /\ ~rdid.imported
        /\ ~rdid.dispatched
        /\ rdid.out = NoHandleOut

\* A PUT with the JSON body of a call of greet has been answered with 405.
C17_Witness ==
    /\ rpc = "done"
    /\ rreq.method = "PUT"
    /\ rreq.isJson
    /\ rreq.body.path = << "greet" >>
    /\ rdid.response.status = 405

\* C16: when the HTTP response has a status outside 200..299, the fetch
\* handler throws its "Failed to fetch" failure with the status, whatever
\* the body and the correlation header are, and the call fails with that
\* failure; the one HTTP request of the call was sent once.
C16_NonSuccessFails ==
    \A c \in DoneCalls :
        ( /\ binding.handler = "fetch"
          /\ calls[c].built
          /\ (calls[c].httpRes.status < 200 \/ calls[c].httpRes.status > 299) ) =>
            /\ calls[c].hres.k = "threw"
            /\ calls[c].hres.res = NoResponse
            /\ calls[c].hres.exc.name = << "Error" >>
            /\ calls[c].hres.exc.message =
                  << "Failed to fetch", COLON, SP, StatusText(calls[c].httpRes.status),
                     SP, ReasonPhrase(calls[c].httpRes.status) >>
            /\ calls[c].settle = Settled("rejected", VUndef, calls[c].hres.exc)
            /\ calls[c].ncalls = 1
            /\ calls[c].httpReq = FetchRequest(calls[c].req)

\* A response with status 500, no correlation header and no JSON body has
\* been received and the call has failed.
C16_Witness ==
    \E c \in DoneCalls :
        /\ binding.handler = "fetch"
        /\ calls[c].httpRes.status = 500
        /\ calls[c].httpRes.headers[UPI_ID_HEADER] = NULL
        /\ ~calls[c].httpRes.isJson
        /\ calls[c].settle.outcome = "rejected"

\* C18: with several calls outstanding, in whatever order the responses
\* arrive, every call settles from the Response made for its own Request:
\* the HTTP response to its own HTTP request, what the local handler or
\* the caller's handler returned for its own Request.
C18_OwnResponse ==
    \A c \in DoneCalls :
        calls[c].built =>
            /\ calls[c].settle = proxyReturn(calls[c].hres)
            /\ binding.handler = "fetch" =>
                  /\ calls[c].hres = fetchHandler(calls[c].req, calls[c].httpRes)
                  /\ calls[c].httpReq = FetchRequest(calls[c].req)
            /\ binding.endpoint = "router" =>
                  /\ calls[c].rout \in
                        {routerPost(calls[c].httpReq, l, Api) : l \in BOOLEAN}
                  /\ calls[c].httpRes = IF calls[c].rout.rejected THEN InternalServerError
                                         ELSE calls[c].rout.response
            /\ binding.endpoint = "other" =>
                  calls[c].httpRes \in OtherResponses(calls[c].req)
            /\ binding.handler = "local" =>
                  calls[c].hres \in {localHandler(calls[c].req, l, Api) : l \in BOOLEAN}
            /\ binding.handler = "custom" =>
                  calls[c].hres \in CustomResults(calls[c].req)

\* A later call has resolved while an earlier call, with another id, is
\* still outstanding.
C18_Witness ==
    \E c, d \in 1..Len(calls) :
        /\ c < d
        /\ calls[c].pc \in {"fetch", "response", "import", "handler"}
        /\ calls[d].pc = "done"
        /\ calls[d].settle.outcome = "resolved"
        /\ calls[c].req.id # calls[d].req.id

\* C19: no two Requests built by proxy invocations carry the same id.
C19_FreshIds ==
    \A c, d \in 1..Len(calls) :
        (c # d /\ calls[c].built /\ calls[d].built) =>
            calls[c].req.id # calls[d].req.id

C21_LocalHandler ==
    \A c \in DoneCalls :
        (binding.handler = "local" /\ calls[c].built) =>
            /\ calls[c].rout.imported
            /\ ~calls[c].rout.dispatched =>
                  /\ calls[c].rout.out = NoHandleOut
                  /\ calls[c].hres = HandlerThrew(ModuleNotFound)
                  /\ calls[c].settle = Settled("rejected", VUndef, ModuleNotFound)
            /\ (calls[c].rout.dispatched /\ ~calls[c].rout.out.raised) =>
                  /\ calls[c].rout.out = handle(Api, calls[c].req)
                  /\ calls[c].hres = HandlerReturned(calls[c].rout.out.res)

\* Of two calls through the local handler one found the module and got
\* handle's Response, the other did not and failed.
C21_Witness ==
    \E c, d \in DoneCalls :
        /\ binding.handler = "local"
        /\ calls[c].hres.k = "returned"
        /\ calls[c].rout.out.branch = "ok"
        /\ ~calls[d].rout.dispatched
        /\ calls[d].settle.outcome = "rejected"
        /\ calls[d].built

\* C22: upi(input) binds the proxy it returns to the fetch handler for
\* http: and https:, to the local handler for file:, and for any other
\* protocol throws, making no proxy and calling no Handler.
C22_UpiByProtocol ==
    [][(binding = Binding("none", "", FALSE) /\ binding' # binding
          /\ binding'.handler # "custom") =>
          /\ \E url \in Urls : binding' = upi(url)
          /\ \A url \in Urls :
                binding' = upi(url) =>
                    /\ url.protocol \in {"http:", "https:"} =>
                          /\ binding'.handler = "fetch" /\ ~binding'.threw
                          /\ proxies' = << RootProxy >>
                    /\ url.protocol = "file:" =>
                          /\ binding'.handler = "local" /\ ~binding'.threw
                          /\ proxies' = << RootProxy >>
                    /\ url.protocol \notin {"http:", "https:", "file:"} =>
                          /\ binding'.threw
                          /\ binding'.handler = "none"
                          /\ proxies' = << >>
          /\ calls' = calls
          /\ HandlerInvocations(calls') = 0]_vars

\* upi was given a URL of another protocol: it threw and there is no proxy.
C22_Witness ==
    /\ binding = Binding("none", "", TRUE)
    /\ proxies = << >>
    /\ calls = << >>

\* C23: handle never raises.  When an element of the path before the last
\* is absent, or the container the walk reaches is null or undefined,
\* handle invokes nothing and returns an error Response with the Request's
\* id and path.
C23_AlwaysAResponse ==
    LET n         == Len(hreq.path)
        container == get(htarget, htarget.root,
                         IF n = 0 THEN << >> ELSE SubSeq(hreq.path, 1, n - 1))
    IN  hpc = "done" =>
            /\ ~hout.raised
            /\ (n >= 2 /\ container.t \in {"null", "undef"}) =>
                  /\ hout.invoked = << >>
                  /\ hout.res.hasError
                  /\ hout.res.id = hreq.id
                  /\ hout.res.path = hreq.path

\* C24: the error of an unknown-request Response names, after "Valid =",
\* exactly the own member names of the container, the object reached by
\* the path without its last element, as they are when handle is called.
C24_ListsContainerMembers ==
    LET n         == Len(hreq.path)
        path      == SubSeq(hreq.path, 1, n - 1)
        container == get(htarget, htarget.root, path)
        names     == IF container.t = "obj"
                     THEN [i \in 1..Len(htarget.heap[container.n]) |->
                              htarget.heap[container.n][i].k]
                     ELSE IF container.t = "str"
                     THEN [i \in 1..Len(container.s) |-> IndexName(i)]
                     ELSE << >>
    IN  (hpc = "done" /\ n >= 1 /\ hout.branch = "unknown") =>
            hout.res.error =
                errorToString(EngineError("Error",
                    UnknownRequestMessage(path, hreq.path[n], names))).s

\* C25: when the path designates a function, handle invokes that function
\* once, with the container as this and the Request's args in their
\* order, and the Response's result is what the function returned.
C25_InvokesDesignatedFunction ==
    LET n         == Len(hreq.path)
        path      == SubSeq(hreq.path, 1, n - 1)
        container == get(htarget, htarget.root, path)
        func      == GetProp(htarget, container, hreq.path[n])
    IN  ( /\ hpc = "done"
          /\ n >= 1
          /\ container.t \notin {"null", "undef"}
          /\ func.t = "fn" ) =>
            /\ hout.invoked = << [fn |-> func.n, this |-> container, args |-> hreq.args] >>
            /\ ~FnBody(func.n, container, hreq.args).throws =>
                  /\ ~hout.raised
                  /\ hout.branch = "ok"
                  /\ ~hout.res.hasError
                  /\ hout.res.result = FnBody(func.n, container, hreq.args).val

\* C26: the router's handler returns an HTTP response for every request;
\* for a POST whose body is no JSON, or whose module cannot be imported,
\* the response has status 500.
C26_RouterAlwaysAnswers ==
    rpc = "done" =>
        /\ ~rdid.rejected
        /\ (rreq.method = "POST" /\ (~rreq.isJson \/ ~rdid.dispatched)) =>
              rdid.response.status = 500

\* C27: stringToError takes as kind the first line up to its first ": ",
\* as message all of the first line after that first ": ", as stack the
\* lines after the first; the class is the kind's when the kind is in the
\* catalog and Error otherwise, and the name is the kind.
C27_DecodeSplitsAtFirstSeparator ==
    LET nl      == IndexOf(cenc, << LF >>)
        first   == IF nl = 0 THEN cenc ELSE SubSeq(cenc, 1, nl - 1)
        rest    == IF nl = 0 THEN << >> ELSE SubSeq(cenc, nl + 1, Len(cenc))
        at      == IndexOf(first, << COLON, SP >>)
        kind    == IF at = 0 THEN first ELSE SubSeq(first, 1, at - 1)
        message == IF at = 0 THEN << >> ELSE SubSeq(first, at + 2, Len(first))
    IN  cpc = "dec" =>
            /\ cdec.name = kind
            /\ cdec.message = message
            /\ nl # 0 => cdec.stack = rest
            /\ cdec.cls = IF \E i \in 1..Len(ERROR_CLASSES) : << ERROR_CLASSES[i] >> = kind
                          THEN kind[1] ELSE "Error"

\* C28: errorToString of a failure with a message is the kind name, ": ",
\* the message, a line feed and the failure's stack; of a failure with an
\* empty message it is the kind name and nothing else.
C28_EncodeLayout ==
    cpc \in {"enc", "dec"} =>
        IF cfail.message # << >>
        THEN cenc = cfail.name \o << COLON, SP >> \o cfail.message \o << LF >> \o cfail.stack
        ELSE cenc = cfail.name

\* A failure of a kind outside the catalog, with a message, was encoded.
C28_Witness ==
    /\ cpc = "enc"
    /\ cfail.name = << "MyError" >>
    /\ cfail.message = << "m" >>
    /\ cfail.stack = << "at f" >>
    /\ cenc = << "MyError", COLON, SP, "m", LF, "at f" >>

\* C29: no Response handle returns has both a result and an error: the
\* Response of a call that returned has no error, the Responses of an
\* unknown request and of a call that threw have no result.
C29_ResultOrError ==
    (hpc = "done" /\ ~hout.raised) =>
        /\ ~(hout.res.hasError /\ hout.res.result # VUndef)
        /\ hout.branch = "ok" => (~hout.res.hasError /\ hout.res.error = << >>)
        /\ hout.branch \in {"unknown", "caught"} => hout.res.result = VUndef
        /\ hout.branch = "unknown" => hout.res.hasError

\* handle has returned a Response whose result is null and which has no
\* error.
C29_Witness ==
    /\ hpc = "done"
    /\ hout.branch = "ok"
    /\ hout.res.result = VNull
    /\ ~hout.res.hasError

\* C30: for a Request whose path is empty or missing handle invokes
\* nothing, not even a target that is itself a function, and returns the
\* unknown-request error Response that lists the member names of the root.
C30_EmptyPathInvokesNothing ==
    (hpc = "done" /\ (~hreq.hasPath \/ hreq.path = << >>)) =>
        /\ ~hout.raised
        /\ hout.invoked = << >>
        /\ hout.res.hasError
        /\ hout.res.result = VUndef
        /\ hout.res.error =
              errorToString(EngineError("Error",
                  UnknownRequestMessage(<< >>, "undefined",
                      IF htarget.root.t = "obj"
                      THEN [i \in 1..Len(htarget.heap[htarget.root.n]) |->
                               htarget.heap[htarget.root.n][i].k]
                      ELSE << >>))).s

\* handle was given a target that is a function and a Request with no
\* path: it invoked nothing.
C30_Witness ==
    /\ hpc = "done"
    /\ htarget = FnRoot
    /\ ~hreq.hasPath
    /\ hreq.args = << VStr(<< "Ada" >>) >>
    /\ hout.invoked = << >>
    /\ hout.res.hasError

====
